---- MODULE Spec2Model ----
(***************************************************************************)
(* Model of spec2006_work/scripts/convert_sniper_sqlite.py: the conversion *)
(* of a Sniper statistics database (tables names, prefixes, values) into a *)
(* document of resolved metrics.                                           *)
(*                                                                         *)
(* Python objects are records [t, n, e, s]: t is the type tag, n/e the     *)
(* number (n / 10^e, e = 0 for an int) and s the text as a sequence of     *)
(* one-character strings.                                                  *)
(***************************************************************************)
EXTENDS Integers, Sequences, FiniteSets, TLC

VARIABLES
    pc,                 \* position in main / export_database / build_resolved_metrics / convert_value
    args,               \* parsed command line and environment of main
    db,                 \* the file at sqlite_file: kind, tables present, query results
    caller,             \* who called build_resolved_metrics: "export" or "none"
    names,              \* build_resolved_metrics: nameid -> (objectname, metricname)
    prefixes,           \* build_resolved_metrics: list of prefix names
    prefixid_to_name,   \* build_resolved_metrics: prefixid -> prefixname
    metrics,            \* build_resolved_metrics: prefixname -> (key -> value)
    vidx,               \* number of rows of the values query already processed
    resolved,           \* return value of build_resolved_metrics
    result,             \* export_database's result document
    exc,                \* exception in flight or that ended the run ("none" when none)
    dbOpened,           \* sqlite3.connect was called
    outOpened,          \* the output file was opened for writing
    outWritten,         \* the document was dumped to the output file
    exitStatus,         \* process exit status, -1 while running
    stderr,             \* the last error message printed, "none" when none
    cv_in,              \* convert_value: argument
    cv_out              \* convert_value: return value

vars == <<pc, args, db, caller, names, prefixes, prefixid_to_name, metrics, vidx,
          resolved, result, exc, dbOpened, outOpened, outWritten, exitStatus,
          stderr, cv_in, cv_out>>

(***************************************************************************)
(* Bounds of the model.                                                    *)
(***************************************************************************)
MaxLen == 3         \* longest string handed to convert_value
MaxNames == 1       \* rows of the names table
MaxPrefixes == 2    \* rows of the prefixes table
MaxValues == 2      \* rows of the values table
MaxFileRows == 1    \* rows of each table of the files main is run on

(***************************************************************************)
(* Python values.                                                          *)
(***************************************************************************)
PyNone == [t |-> "none", n |-> 0, e |-> 0, s |-> <<>>]
PyInt(k) == [t |-> "int", n |-> k, e |-> 0, s |-> <<>>]
PyFloat(m, x) == [t |-> "float", n |-> m, e |-> x, s |-> <<>>]
PyStr(cs) == [t |-> "str", n |-> 0, e |-> 0, s |-> cs]
PyBytes(cs) == [t |-> "bytes", n |-> 0, e |-> 0, s |-> cs]

Digits == <<"0", "1", "2", "3", "4", "5", "6", "7", "8", "9">>
IsDigit(c) == \E i \in 1..10 : Digits[i] = c
DigitVal(c) == (CHOOSE i \in 1..10 : Digits[i] = c) - 1
Whitespace == {" "}

\* str.strip(): drop leading and trailing whitespace
RECURSIVE LStrip(_)
LStrip(cs) == IF cs # <<>> /\ Head(cs) \in Whitespace THEN LStrip(Tail(cs)) ELSE cs
RECURSIVE RStrip(_)
RStrip(cs) ==
    IF cs # <<>> /\ cs[Len(cs)] \in Whitespace
    THEN RStrip(SubSeq(cs, 1, Len(cs) - 1)) ELSE cs
Strip(cs) == RStrip(LStrip(cs))

\* '.' in value
HasDot(cs) == \E i \in 1..Len(cs) : cs[i] = "."

\* value of a sequence of digits
RECURSIVE DigitsVal(_)
DigitsVal(cs) ==
    IF cs = <<>> THEN 0
    ELSE 10 * DigitsVal(SubSeq(cs, 1, Len(cs) - 1)) + DigitVal(cs[Len(cs)])

\* int(value) does not raise ValueError: surrounding whitespace, then digits
IntParses(cs) ==
    LET b == Strip(cs) IN b # <<>> /\ \A i \in 1..Len(b) : IsDigit(b[i])
IntOf(cs) == DigitsVal(Strip(cs))

\* float(value) does not raise ValueError, for a value that holds a '.':
\* surrounding whitespace, digits around exactly one '.', at least one digit
FloatParses(cs) ==
    LET b == Strip(cs) IN
    /\ Cardinality({i \in 1..Len(b) : b[i] = "."}) = 1
    /\ \A i \in 1..Len(b) : b[i] = "." \/ IsDigit(b[i])
    /\ \E i \in 1..Len(b) : IsDigit(b[i])

\* a decimal n / 10^e without trailing zeros in its fraction
RECURSIVE Normal(_, _)
Normal(m, x) == IF x > 0 /\ m % 10 = 0 THEN Normal(m \div 10, x - 1) ELSE PyFloat(m, x)

FloatOf(cs) ==
    LET b == Strip(cs)
        d == CHOOSE i \in 1..Len(b) : b[i] = "."
        digs == SubSeq(b, 1, d - 1) \o SubSeq(b, d + 1, Len(b))
    IN Normal(DigitsVal(digs), Len(b) - d)

\* str(value) of a bytes object
BytesRepr(cs) == <<"b", "'">> \o cs \o <<"'">>

\* convert_value that tries float(value) whether or not the string holds a '.'
convert_value_float_first(value) ==
    IF value.t = "none" THEN PyNone
    ELSE IF value.t \in {"int", "float"} THEN value
    ELSE IF value.t = "str" THEN
        IF FloatParses(value.s) THEN FloatOf(value.s)
        ELSE IF IntParses(value.s) THEN PyFloat(IntOf(value.s), 0)
        ELSE value
    ELSE PyStr(BytesRepr(value.s))

convert_value(value) ==
    IF value.t = "none" THEN PyNone
    ELSE IF value.t \in {"int", "float"} THEN value
    ELSE IF value.t = "str" THEN
        IF HasDot(value.s)
        THEN IF FloatParses(value.s) THEN FloatOf(value.s) ELSE value
        ELSE IF IntParses(value.s) THEN PyInt(IntOf(value.s)) ELSE value
    ELSE PyStr(BytesRepr(value.s))


\* f"{value}" of an int
RECURSIVE NatStr(_)
NatStr(k) == IF k < 10 THEN <<Digits[k + 1]>> ELSE NatStr(k \div 10) \o <<Digits[(k % 10) + 1]>>
IntStr(k) == IF k < 0 THEN <<"-">> \o NatStr(0 - k) ELSE NatStr(k)

RECURSIVE Pow10(_)
Pow10(x) == IF x = 0 THEN 1 ELSE 10 * Pow10(x - 1)

RECURSIVE ZeroPad(_, _)
ZeroPad(cs, w) == IF Len(cs) >= w THEN cs ELSE ZeroPad(<<"0">> \o cs, w)

\* f"{value}" of a non-negative float n / 10^e in positional notation
FloatStr(m, x) ==
    IF x = 0 THEN NatStr(m) \o <<".", "0">>
    ELSE NatStr(m \div Pow10(x)) \o <<".">> \o ZeroPad(NatStr(m % Pow10(x)), x)

\* the text an f-string puts for {value}
format(value) ==
    IF value.t = "none" THEN <<"N", "o", "n", "e">>
    ELSE IF value.t = "int" THEN IntStr(value.n)
    ELSE IF value.t = "float" THEN FloatStr(value.n, value.e)
    ELSE IF value.t = "str" THEN value.s
    ELSE BytesRepr(value.s)

\* truth value of an object (`x or ''`, `if obj`, `if not key`)
Truthy(value) ==
    IF value.t = "none" THEN FALSE
    ELSE IF value.t \in {"int", "float"} THEN value.n # 0
    ELSE value.s # <<>>

(***************************************************************************)
(* Python dicts are functions on the keys. Keys that compare equal are one *)
(* key (1 == 1.0 and hash(1) == hash(1.0)): HashKey picks the int.         *)
(***************************************************************************)
HashKey(k) == IF k.t = "float" /\ k.e = 0 THEN PyInt(k.n) ELSE k
EmptyDict == [k \in {} |-> PyNone]
DictSet(d, k, v) == [x \in DOMAIN d \cup {HashKey(k)} |-> IF x = HashKey(k) THEN v ELSE d[x]]
DictHas(d, k) == HashKey(k) \in DOMAIN d
DictGet(d, k, default) == IF DictHas(d, k) THEN d[HashKey(k)] ELSE default

(***************************************************************************)
(* build_resolved_metrics                                                  *)
(***************************************************************************)
\* `(cell or '').strip() if cell is not None else ''` raises AttributeError:
\* a non-zero number has no strip()
StripRaises(cell) == cell.t \in {"int", "float"} /\ cell.n # 0

\* str((cell or '').strip() if cell is not None else '')
StripCell(cell) ==
    IF cell.t = "none" \/ ~Truthy(cell) THEN <<>>
    ELSE IF cell.t = "str" THEN Strip(cell.s)
    ELSE BytesRepr(Strip(cell.s))

NamesRowRaises(row) == StripRaises(row.objectname) \/ StripRaises(row.metricname)

\* the loop over the names query: nameid -> <<objectname, metricname>>
RECURSIVE NamesDict(_)
NamesDict(rows) ==
    IF rows = <<>> THEN EmptyDict
    ELSE LET row == rows[Len(rows)] IN
         DictSet(NamesDict(SubSeq(rows, 1, Len(rows) - 1)),
                 convert_value(row.nameid),
                 <<StripCell(row.objectname), StripCell(row.metricname)>>)

\* the loop over the prefixes query: the list of names
PrefixList(rows) == [i \in 1..Len(rows) |-> rows[i].prefixname]

\* the loop over the prefixes query: prefixid -> prefixname
RECURSIVE PrefixDict(_)
PrefixDict(rows) ==
    IF rows = <<>> THEN EmptyDict
    ELSE LET row == rows[Len(rows)] IN
         DictSet(PrefixDict(SubSeq(rows, 1, Len(rows) - 1)),
                 convert_value(row.prefixid), row.prefixname)

\* InitialMetrics with a guard `if pname:` around the assignment
InitialMetricsGuarded(plist) ==
    [p \in {plist[i] : i \in 1..Len(plist)} \ {PyNone} |-> EmptyDict]

\* metrics[pname] = {} for every pname of the list
InitialMetrics(plist) == [p \in {plist[i] : i \in 1..Len(plist)} |-> EmptyDict]

Unknown == <<"u", "n", "k", "n", "o", "w", "n">>
NameidPrefix == <<"n", "a", "m", "e", "i", "d", "_">>

\* prefixid_to_name.get(prefixid)
LookupPrefix(p2n, row) == DictGet(p2n, convert_value(row.prefixid), PyNone)

\* ResolveKey without the `if obj` test: always f"{obj}.{metric}"
ResolveKeyDotted(nm, row) ==
    LET nameid == convert_value(row.nameid)
        pair == DictGet(nm, nameid, <<<<>>, Unknown>>)
    IN pair[1] \o <<".">> \o pair[2]

\* the key a values row is stored under
ResolveKey(nm, row) ==
    LET nameid == convert_value(row.nameid)
        pair == DictGet(nm, nameid, <<<<>>, Unknown>>)
        obj == pair[1]
        metric == pair[2]
        key == IF obj # <<>> THEN obj \o <<".">> \o metric ELSE metric
    IN IF key = <<>> THEN NameidPrefix \o format(nameid) ELSE key

\* StoreRow without `if pname is None: continue`, storing with setdefault
StoreRowNoSkip(nm, p2n, m, row) ==
    LET pname == DictGet(p2n, convert_value(row.prefixid), PyNone) IN
    [p \in DOMAIN m \cup {pname} |->
        IF p = pname
        THEN DictSet(IF p \in DOMAIN m THEN m[p] ELSE EmptyDict,
                     PyStr(ResolveKey(nm, row)), convert_value(row.value))
        ELSE m[p]]

\* StoreRow that keeps the value already stored at a key (setdefault)
StoreRowKeepFirst(nm, p2n, m, row) ==
    LET pname == DictGet(p2n, convert_value(row.prefixid), PyNone)
        key == PyStr(ResolveKey(nm, row))
    IN IF pname = PyNone \/ key \in DOMAIN m[pname] THEN m
       ELSE [m EXCEPT ![pname] = DictSet(m[pname], key, convert_value(row.value))]

\* one iteration of the loop over the values query
StoreRow(nm, p2n, m, row) ==
    LET pname == LookupPrefix(p2n, row) IN
    IF pname = PyNone THEN m
    ELSE [m EXCEPT ![pname] = DictSet(m[pname], PyStr(ResolveKey(nm, row)),
                                      convert_value(row.value))]


\* the loop over the values query, on any list of rows
RECURSIVE StoreRows(_, _, _, _)
StoreRows(nm, p2n, m, rows) ==
    IF rows = <<>> THEN m
    ELSE StoreRow(nm, p2n, StoreRows(nm, p2n, m, SubSeq(rows, 1, Len(rows) - 1)),
                  rows[Len(rows)])

(***************************************************************************)
(* The database file. tables: the tables it holds; badcols: those of them  *)
(* that lack a column the queries select; names, prefixes, values: the     *)
(* rows of the three tables in table order.                                *)
(***************************************************************************)
Txt(str) == PyStr(str)
NamesRow(i, o, m) == [nameid |-> i, objectname |-> o, metricname |-> m]
PrefixRow(i, n) == [prefixid |-> i, prefixname |-> n]
ValuesRow(p, i, c, v) == [prefixid |-> p, nameid |-> i, core |-> c, value |-> v]

NamesRows ==
    { NamesRow(PyInt(1), Txt(<<"a", " ">>), Txt(<<"m">>)),
      NamesRow(PyInt(1), Txt(<<" ">>), Txt(<<"m">>)),
      NamesRow(Txt(<<"2">>), PyNone, Txt(<<" ">>)),
      NamesRow(PyInt(1), PyInt(5), Txt(<<"m">>)) }

PrefixRows ==
    { PrefixRow(PyInt(1), Txt(<<"p">>)),
      PrefixRow(PyInt(2), Txt(<<"q">>)),
      PrefixRow(PyInt(2), PyNone) }

ValuesRows ==
    { ValuesRow(PyInt(1), PyInt(1), PyInt(0), PyInt(5)),
      ValuesRow(PyInt(1), PyInt(1), PyInt(1), PyInt(7)),
      ValuesRow(Txt(<<"2">>), PyInt(2), PyInt(0), Txt(<<"3", ".", "5">>)),
      ValuesRow(PyFloat(1, 0), PyInt(9), PyInt(0), Txt(<<"3", ".", "5">>)) }

SeqsUpTo(S, n) == UNION {[1..k -> S] : k \in 0..n}

TableNames == {"names", "prefixes", "values", "other"}
NoRows == <<>>

\* a database holding the three tables, well formed
Database(ns, ps, vs) ==
    [kind |-> "sqlite", tables |-> {"names", "prefixes", "values"}, badcols |-> {},
     names |-> ns, prefixes |-> ps, values |-> vs]

Databases ==
    { Database(ns, ps, vs) : ns \in SeqsUpTo(NamesRows, MaxNames),
                             ps \in SeqsUpTo(PrefixRows, MaxPrefixes),
                             vs \in SeqsUpTo(ValuesRows, MaxValues) }

NotADatabase ==
    [kind |-> "notadb", tables |-> {}, badcols |-> {},
     names |-> NoRows, prefixes |-> NoRows, values |-> NoRows]

RowsIf(present, S) == IF present THEN SeqsUpTo(S, MaxFileRows) ELSE {NoRows}

\* the files main is run on: no database at all, or a database holding any of the
\* three tables or only an unrelated one, at most one table lacking a column; a table
\* that is absent or lacks a column yields no rows
InputFiles ==
    {NotADatabase} \cup
    UNION { UNION { { [kind |-> "sqlite", tables |-> T, badcols |-> B,
                       names |-> ns, prefixes |-> ps, values |-> vs] :
                      ns \in RowsIf("names" \in T \ B, NamesRows),
                      ps \in RowsIf("prefixes" \in T \ B, PrefixRows),
                      vs \in RowsIf("values" \in T \ B, ValuesRows) } :
                    B \in {X \in SUBSET (T \ {"other"}) : Cardinality(X) <= 1} } :
            T \in SUBSET (TableNames \ {"other"}) \cup {{"other"}} }

\* the query on table t raises sqlite3.OperationalError: no such table, no such column
QueryRaises(d, t) == t \notin d.tables \/ t \in d.badcols

\* SQLite's ORDER BY on a column holding integers and text: integers first
SqlLeq(a, b) ==
    IF a.t = "int" /\ b.t = "int" THEN a.n <= b.n
    ELSE IF a.t = "int" THEN TRUE
    ELSE IF b.t = "int" THEN FALSE
    ELSE a.s = b.s

Perms(n) == {f \in [1..n -> 1..n] : \A i, j \in 1..n : i # j => f[i] # f[j]}

\* the results SELECT ... ORDER BY prefixid may give: rows of equal prefixid in any order
OrderedByPrefixid(rows) ==
    { [i \in 1..Len(rows) |-> rows[f[i]]] : f \in
        { g \in Perms(Len(rows)) :
            \A i \in 1..(Len(rows) - 1) : SqlLeq(rows[g[i]].prefixid, rows[g[i + 1]].prefixid) } }

NoArgs == [exists |-> TRUE, format |-> "json", HAS_YAML |-> FALSE, raw |-> FALSE]
Args == [exists : BOOLEAN, format : {"json", "yaml"}, HAS_YAML : BOOLEAN, raw : BOOLEAN]

NoResolved == [prefixes |-> <<>>, metrics |-> EmptyDict]
\* result = {'database': ...}: has_resolved and has_tables tell whether the keys
\* 'prefixes' and 'metrics', and 'tables', are in the document
NoResult == [has_resolved |-> FALSE, prefixes |-> <<>>, metrics |-> EmptyDict,
             has_tables |-> FALSE, tables |-> EmptyDict]

locals == <<names, prefixes, prefixid_to_name, metrics, vidx, resolved>>
process == <<dbOpened, outOpened, outWritten, exitStatus, stderr>>
convert == <<cv_in, cv_out>>

\* the variables of build_resolved_metrics before it runs
Locals ==
    /\ names = EmptyDict
    /\ prefixes = <<>>
    /\ prefixid_to_name = EmptyDict
    /\ metrics = EmptyDict
    /\ vidx = 0
    /\ resolved = NoResolved

Idle ==
    /\ result = NoResult
    /\ exc = "none"
    /\ dbOpened = FALSE
    /\ outOpened = FALSE
    /\ outWritten = FALSE
    /\ exitStatus = -1
    /\ stderr = "none"

\* build_resolved_metrics is called with a cursor on a well-formed database
Init ==
    /\ pc = "names"
    /\ args = NoArgs
    /\ db \in Databases
    /\ caller = "none"
    /\ Locals
    /\ Idle
    /\ cv_in = PyNone /\ cv_out = PyNone

\* lines 74-80: the names query and its loop
ReadNames ==
    /\ pc = "names"
    /\ IF QueryRaises(db, "names")
       THEN /\ pc' = "raised" /\ exc' = "OperationalError" /\ names' = names
       ELSE IF \E i \in 1..Len(db.names) : NamesRowRaises(db.names[i])
       THEN /\ pc' = "raised" /\ exc' = "AttributeError"
            /\ names' = NamesDict(SubSeq(db.names, 1,
                 (CHOOSE i \in 1..Len(db.names) :
                    /\ NamesRowRaises(db.names[i])
                    /\ \A j \in 1..(i - 1) : ~NamesRowRaises(db.names[j])) - 1))
       ELSE /\ pc' = "prefixes" /\ exc' = exc /\ names' = NamesDict(db.names)
    /\ UNCHANGED <<args, db, caller, prefixes, prefixid_to_name, metrics, vidx, resolved,
                   result, process, convert>>

\* lines 83-89: the prefixes query and its loop
ReadPrefixes ==
    /\ pc = "prefixes"
    /\ IF QueryRaises(db, "prefixes")
       THEN /\ pc' = "raised" /\ exc' = "OperationalError"
            /\ UNCHANGED <<prefixes, prefixid_to_name>>
       ELSE \E rows \in OrderedByPrefixid(db.prefixes) :
            /\ pc' = "metrics" /\ exc' = exc
            /\ prefixes' = PrefixList(rows)
            /\ prefixid_to_name' = PrefixDict(rows)
    /\ UNCHANGED <<args, db, caller, names, metrics, vidx, resolved,
                   result, process, convert>>

\* lines 92-94
InitMetrics ==
    /\ pc = "metrics"
    /\ metrics' = InitialMetrics(prefixes)
    /\ pc' = "values"
    /\ UNCHANGED <<args, db, caller, names, prefixes, prefixid_to_name, vidx, resolved,
                   result, exc, process, convert>>

\* line 97: the values query
ExecValues ==
    /\ pc = "values"
    /\ IF QueryRaises(db, "values")
       THEN pc' = "raised" /\ exc' = "OperationalError"
       ELSE pc' = "loop" /\ exc' = exc
    /\ vidx' = 0
    /\ UNCHANGED <<args, db, caller, names, prefixes, prefixid_to_name, metrics, resolved,
                   result, process, convert>>

\* lines 98-108: one iteration of the loop over the values rows
ProcessValueRow ==
    /\ pc = "loop"
    /\ vidx < Len(db.values)
    /\ metrics' = StoreRow(names, prefixid_to_name, metrics, db.values[vidx + 1])
    /\ vidx' = vidx + 1
    /\ UNCHANGED <<pc, args, db, caller, names, prefixes, prefixid_to_name, resolved,
                   result, exc, process, convert>>

\* lines 110-113
Return ==
    /\ pc = "loop"
    /\ vidx = Len(db.values)
    /\ resolved' = [prefixes |-> prefixes, metrics |-> metrics]
    /\ pc' = IF caller = "export" THEN "assign" ELSE "returned"
    /\ UNCHANGED <<args, db, caller, names, prefixes, prefixid_to_name, metrics, vidx,
                   result, exc, process, convert>>

Next == ReadNames \/ ReadPrefixes \/ InitMetrics \/ ExecValues \/ ProcessValueRow \/ Return

Spec == Init /\ [][Next]_vars

(***************************************************************************)
(* main and export_database                                                *)
(***************************************************************************)
\* main is started on any command line and any file
InitMain ==
    /\ pc = "main"
    /\ args \in Args
    /\ db \in InputFiles
    /\ caller = "main"
    /\ Locals
    /\ Idle
    /\ cv_in = PyNone /\ cv_out = PyNone

\* lines 186-189 with the exit removed: the error is printed and main goes on
CheckFileNoExit ==
    /\ pc = "main"
    /\ pc' = "yaml"
    /\ stderr' = IF args.exists THEN stderr ELSE "File not found"
    /\ UNCHANGED <<args, db, caller, locals, result, exc,
                   dbOpened, outOpened, outWritten, exitStatus, convert>>

\* lines 186-189: sqlite_path.exists()
CheckFile ==
    /\ pc = "main"
    /\ IF args.exists
       THEN pc' = "yaml" /\ UNCHANGED <<stderr, exitStatus>>
       ELSE pc' = "exit" /\ stderr' = "File not found" /\ exitStatus' = 1
    /\ UNCHANGED <<args, db, caller, locals, result, exc,
                   dbOpened, outOpened, outWritten, convert>>

\* lines 191-193: yaml asked for without PyYAML
CheckYaml ==
    /\ pc = "yaml"
    /\ IF args.format = "yaml" /\ ~args.HAS_YAML
       THEN pc' = "exit" /\ stderr' = "PyYAML is required" /\ exitStatus' = 1
       ELSE pc' = "connect" /\ UNCHANGED <<stderr, exitStatus>>
    /\ UNCHANGED <<args, db, caller, locals, result, exc,
                   dbOpened, outOpened, outWritten, convert>>

\* lines 118-124: export_database connects and starts the document
Connect ==
    /\ pc = "connect"
    /\ dbOpened' = TRUE
    /\ result' = NoResult
    /\ pc' = "tables"
    /\ UNCHANGED <<args, db, caller, locals, exc,
                   outOpened, outWritten, exitStatus, stderr, convert>>

\* line 127: get_all_tables, and the call of build_resolved_metrics when there is a table
CheckTables ==
    /\ pc = "tables"
    /\ IF db.kind = "notadb"
       THEN pc' = "raised" /\ exc' = "DatabaseError" /\ caller' = caller
       ELSE IF db.tables = {}
       THEN pc' = "raw" /\ exc' = exc /\ caller' = caller
       ELSE pc' = "names" /\ exc' = exc /\ caller' = "export"
    /\ UNCHANGED <<args, db, locals, result, process, convert>>

\* lines 130-131
Assign ==
    /\ pc = "assign"
    /\ result' = [result EXCEPT !.has_resolved = TRUE,
                                !.prefixes = resolved.prefixes,
                                !.metrics = resolved.metrics]
    /\ caller' = "main"
    /\ pc' = "raw"
    /\ UNCHANGED <<args, db, locals, exc, process, convert>>

\* lines 132-134: except sqlite3.OperationalError
ExportExcept ==
    /\ pc = "raised"
    /\ caller = "export"
    /\ exc = "OperationalError"
    /\ result' = [result EXCEPT !.has_resolved = TRUE,
                                !.prefixes = <<>>,
                                !.metrics = EmptyDict]
    /\ exc' = "none"
    /\ caller' = "main"
    /\ pc' = "raw"
    /\ UNCHANGED <<args, db, locals, process, convert>>

\* export_table_data: every cell through convert_value
TableData(d, t) ==
    IF t = "names" THEN
        [i \in 1..Len(d.names) |->
            NamesRow(convert_value(d.names[i].nameid),
                     convert_value(d.names[i].objectname),
                     convert_value(d.names[i].metricname))]
    ELSE IF t = "prefixes" THEN
        [i \in 1..Len(d.prefixes) |->
            PrefixRow(convert_value(d.prefixes[i].prefixid),
                      convert_value(d.prefixes[i].prefixname))]
    ELSE IF t = "values" THEN
        [i \in 1..Len(d.values) |->
            ValuesRow(convert_value(d.values[i].prefixid),
                      convert_value(d.values[i].nameid),
                      convert_value(d.values[i].core),
                      convert_value(d.values[i].value))]
    ELSE <<>>

\* lines 136-155: the raw tables when asked for (their data; not their schema), close, return
RawTables ==
    /\ pc = "raw"
    /\ result' = IF args.raw
                 THEN [result EXCEPT !.has_tables = TRUE,
                                     !.tables = [t \in db.tables |-> TableData(db, t)]]
                 ELSE result
    /\ pc' = "write"
    /\ UNCHANGED <<args, db, caller, locals, exc, process, convert>>

\* lines 198-200, and an exception that main does not catch: the run ends with status 1
MainExcept ==
    /\ pc = "raised"
    /\ caller \in {"main", "export"}
    /\ ~(caller = "export" /\ exc = "OperationalError")
    /\ stderr' = IF exc \in {"DatabaseError", "OperationalError"}
                 THEN "Error reading SQLite database" ELSE "Traceback"
    /\ exitStatus' = 1
    /\ pc' = "exit"
    /\ UNCHANGED <<args, db, caller, locals, result, exc,
                   dbOpened, outOpened, outWritten, convert>>

\* lines 203-227: the output file is opened and the document dumped; either may fail
Write ==
    /\ pc = "write"
    /\ \E outcome \in {"written", "open fails", "dump fails"} :
         /\ outOpened' = (outcome # "open fails")
         /\ outWritten' = (outcome = "written")
         /\ exitStatus' = IF outcome = "written" THEN 0 ELSE 1
         /\ stderr' = IF outcome = "written" THEN stderr ELSE "Error writing output file"
    /\ pc' = "exit"
    /\ UNCHANGED <<args, db, caller, locals, result, exc, dbOpened, convert>>

NextMain ==
    \/ CheckFile \/ CheckYaml \/ Connect \/ CheckTables
    \/ ReadNames \/ ReadPrefixes \/ InitMetrics \/ ExecValues \/ ProcessValueRow \/ Return
    \/ Assign \/ ExportExcept \/ RawTables \/ MainExcept \/ Write

SpecMain == InitMain /\ [][NextMain]_vars

(***************************************************************************)
(* convert_value on its own                                                *)
(***************************************************************************)
Chars == {"0", "1", ".", "a", " "}

ConvertInputs ==
    {PyStr(cs) : cs \in SeqsUpTo(Chars, MaxLen)}
    \cup {PyNone, PyInt(0), PyInt(7), PyFloat(5, 1), PyFloat(2, 0), PyBytes(<<"a">>)}

InitConvert ==
    /\ pc = "convert"
    /\ args = NoArgs
    /\ db = NotADatabase
    /\ caller = "none"
    /\ Locals
    /\ Idle
    /\ cv_in \in ConvertInputs
    /\ cv_out = PyNone

\* lines 39-52
ConvertValue ==
    /\ pc = "convert"
    /\ cv_out' = convert_value(cv_in)
    /\ pc' = "converted"
    /\ UNCHANGED <<args, db, caller, locals, result, exc, process, cv_in>>

NextConvert == ConvertValue

SpecConvert == InitConvert /\ [][NextConvert]_vars

(***************************************************************************)
(* Vocabulary of the properties, stated on the tables of the database.     *)
(***************************************************************************)
\* Python's == on identifiers: numbers by value, everything else by identity of content
PyEq(a, b) ==
    IF a.t \in {"int", "float"} /\ b.t \in {"int", "float"}
    THEN a.n * Pow10(b.e) = b.n * Pow10(a.e)
    ELSE a = b

\* the rows of the prefixes table that carry the (coerced) prefix identifier of a values row
PrefixRowsOf(row) ==
    { j \in 1..Len(db.prefixes) :
        PyEq(convert_value(row.prefixid), convert_value(db.prefixes[j].prefixid)) }
PrefixIdKnown(row) == PrefixRowsOf(row) # {}

\* the rows of the names table that carry the (coerced) name identifier of a values row
NameRowsOf(row) ==
    { j \in 1..Len(db.names) :
        PyEq(convert_value(row.nameid), convert_value(db.names[j].nameid)) }
NameIdKnown(row) == NameRowsOf(row) # {}

Last(S) == CHOOSE i \in S : \A j \in S : j <= i
RemoveAt(rows, i) == SubSeq(rows, 1, i - 1) \o SubSeq(rows, i + 1, Len(rows))

\* the trimmed text of a cell of the names table (a null cell is empty)
Trimmed(cell) == IF cell.t = "str" THEN Strip(cell.s) ELSE <<>>
ObjectNameOf(row) == Trimmed(db.names[Last(NameRowsOf(row))].objectname)
MetricNameOf(row) == Trimmed(db.names[Last(NameRowsOf(row))].metricname)

\* the values rows are all processed and the function has returned
Returned == pc = "returned"
\* the values rows processed so far
Processed == IF pc \in {"loop", "returned"} THEN 1..vidx ELSE {}
\* the name the loop found for the prefix of a values row (None when it found none)
PrefixNameOf(row) == LookupPrefix(prefixid_to_name, row)
Stored(row) == PrefixNameOf(row) # PyNone

\* C1: a values row whose coerced prefix identifier is no identifier of the prefixes
\* table contributes nothing: the result is the result for the input without that row,
\* and no error is raised.
C1_UnknownPrefixRowContributesNothing ==
    Returned =>
        /\ exc = "none"
        /\ \A i \in 1..Len(db.values) :
             ~PrefixIdKnown(db.values[i]) =>
                resolved = [prefixes |-> prefixes,
                            metrics |-> StoreRows(names, prefixid_to_name,
                                                  InitialMetrics(prefixes),
                                                  RemoveAt(db.values, i))]

C1_Witness ==
    /\ Returned
    /\ \E i, j \in 1..Len(db.values) :
         /\ ~PrefixIdKnown(db.values[i])
         /\ Stored(db.values[j])
    /\ \E p \in DOMAIN resolved.metrics : resolved.metrics[p] # EmptyDict

\* C2: every prefix name read from the prefixes table is a key of the returned metrics,
\* and a prefix name that no values row resolves to maps to the empty mapping, whatever
\* the values table holds.
C2_EveryPrefixIsAKey ==
    Returned =>
        \A j \in 1..Len(db.prefixes) :
            LET p == db.prefixes[j].prefixname IN
            /\ p \in DOMAIN resolved.metrics
            /\ (\A i \in 1..Len(db.values) : PrefixNameOf(db.values[i]) # p)
                  => resolved.metrics[p] = EmptyDict

C2_Witness ==
    /\ Returned
    /\ \E j \in 1..Len(db.prefixes) :
         LET p == db.prefixes[j].prefixname IN
         /\ p # PyNone
         /\ \A i \in 1..Len(db.values) : PrefixNameOf(db.values[i]) # p
         /\ resolved.metrics[p] = EmptyDict
    /\ \E p \in DOMAIN resolved.metrics : resolved.metrics[p] # EmptyDict

\* the values rows stored under the same prefix name and key as row i
SameSlot(i) ==
    { j \in 1..Len(db.values) :
        /\ PrefixNameOf(db.values[j]) = PrefixNameOf(db.values[i])
        /\ ResolveKey(names, db.values[j]) = ResolveKey(names, db.values[i]) }

\* C3: when several values rows resolve to the same (prefix name, key), the value
\* stored there in the end is the coerced value of the last of them in table order.
C3_LastRowWins ==
    Returned =>
        \A i \in 1..Len(db.values) :
            Stored(db.values[i]) =>
                resolved.metrics[PrefixNameOf(db.values[i])]
                                [PyStr(ResolveKey(names, db.values[i]))]
                    = convert_value(db.values[Last(SameSlot(i))].value)

C3_Witness ==
    /\ Returned
    /\ \E i, j \in 1..Len(db.values) :
         /\ i < j
         /\ Stored(db.values[i])
         /\ j \in SameSlot(i)
         /\ convert_value(db.values[i].value) # convert_value(db.values[j].value)


\* the key the names table gives a values row: "object.metric", or "metric" alone
ObjectDotMetric(row) ==
    IF ObjectNameOf(row) # <<>>
    THEN ObjectNameOf(row) \o <<".">> \o MetricNameOf(row)
    ELSE MetricNameOf(row)

C5_UnknownNameStoredUnderSentinel ==
    (pc = "loop" /\ vidx >= 1) =>
        LET row == db.values[vidx] IN
        (PrefixIdKnown(row) /\ ~NameIdKnown(row)) =>
            \E j \in PrefixRowsOf(row) :
                LET p == db.prefixes[j].prefixname IN
                /\ p \in DOMAIN metrics
                /\ PyStr(Unknown) \in DOMAIN metrics[p]
                /\ metrics[p][PyStr(Unknown)] = convert_value(row.value)

\* C7: two values rows with the same prefix identifier and the same name identifier but
\* different core indices are stored under different keys, so both values are in the result.
C7_CoreIndexInKey ==
    Returned =>
        \A i, j \in 1..Len(db.values) :
            LET ri == db.values[i]
                rj == db.values[j]
            IN
            ( /\ Stored(ri) /\ Stored(rj)
              /\ PyEq(convert_value(ri.prefixid), convert_value(rj.prefixid))
              /\ PyEq(convert_value(ri.nameid), convert_value(rj.nameid))
              /\ ~PyEq(convert_value(ri.core), convert_value(rj.core)) ) =>
                \E ki, kj \in DOMAIN resolved.metrics[PrefixNameOf(ri)] :
                    /\ ki # kj
                    /\ resolved.metrics[PrefixNameOf(ri)][ki] = convert_value(ri.value)
                    /\ resolved.metrics[PrefixNameOf(ri)][kj] = convert_value(rj.value)

\* C10: every processed values row whose coerced prefix identifier is the identifier of
\* some row of the prefixes table has its key in the mapping of that prefix, whatever the
\* prefix name is; rows are skipped only when the identifier is missing from the table.
C10_KnownPrefixIdIsStored ==
    \A i \in Processed :
        LET row == db.values[i] IN
        PrefixIdKnown(row) =>
            \E j \in PrefixRowsOf(row) :
                LET p == db.prefixes[j].prefixname IN
                /\ p \in DOMAIN metrics
                /\ PyStr(ResolveKey(names, row)) \in DOMAIN metrics[p]


\* a required table is absent or lacks a column
Malformed(d) == \E t \in {"names", "prefixes", "values"} : QueryRaises(d, t)

\* C6: for every database in which one of the tables names, prefixes, values is absent
\* or malformed (a database with no table at all included), export_database does not
\* fail and returns a document whose prefixes is the empty list and whose metrics is the
\* empty mapping.
C6_MalformedGivesEmptyResult ==
    (db.kind = "sqlite" /\ Malformed(db)) =>
        /\ ~(pc = "exit" /\ dbOpened /\ exc # "none")
        /\ pc = "write" =>
             /\ result.has_resolved
             /\ result.prefixes = <<>>
             /\ result.metrics = EmptyDict

\* C9: when the input path does not exist, main reports the error and ends with a
\* non-zero exit status; the database is never opened and the output file is never
\* opened or written.
C9_MissingInputExitsBeforeExport ==
    ~args.exists =>
        /\ pc \in {"main", "exit"}
        /\ ~dbOpened /\ ~outOpened /\ ~outWritten
        /\ pc = "exit" => (exitStatus # 0 /\ exitStatus # -1 /\ stderr = "File not found")

C9_Witness == ~args.exists /\ pc = "exit" /\ exitStatus = 1 /\ ~dbOpened

\* the text of a string between its surrounding blanks
FirstInk(cs) == CHOOSE i \in 1..Len(cs) : cs[i] # " " /\ \A j \in 1..(i - 1) : cs[j] = " "
LastInk(cs) == CHOOSE i \in 1..Len(cs) : cs[i] # " " /\ \A j \in (i + 1)..Len(cs) : cs[j] = " "
Ink(cs) == IF \A i \in 1..Len(cs) : cs[i] = " " THEN <<>>
           ELSE [i \in 1..(LastInk(cs) - FirstInk(cs) + 1) |-> cs[FirstInk(cs) + i - 1]]

RECURSIVE Horner(_, _)
Horner(acc, cs) == IF cs = <<>> THEN acc ELSE Horner(10 * acc + DigitVal(Head(cs)), Tail(cs))

\* an integer literal: digits, blanks around them allowed
IsIntegerLiteral(cs) == Ink(cs) # <<>> /\ \A i \in 1..Len(Ink(cs)) : IsDigit(Ink(cs)[i])

\* a decimal literal: digits with one '.', at least one digit, blanks around allowed
IsDecimalLiteral(cs) ==
    \E d \in 1..Len(Ink(cs)) :
        /\ Ink(cs)[d] = "."
        /\ \A i \in 1..Len(Ink(cs)) : i # d => IsDigit(Ink(cs)[i])
        /\ Len(Ink(cs)) >= 2

\* the float r is the number the decimal literal cs writes
IsValueOf(r, cs) ==
    LET b == Ink(cs)
        d == CHOOSE i \in 1..Len(b) : b[i] = "."
        frac == Len(b) - d
    IN r.n * Pow10(frac)
         = (Horner(0, SubSeq(b, 1, d - 1)) * Pow10(frac) + Horner(0, SubSeq(b, d + 1, Len(b))))
             * Pow10(r.e)

\* numbers and None come back unchanged
C8_NonStrings ==
    cv_in.t \in {"none", "int", "float"} => cv_out = cv_in

\* C8 as stated: a string without '.' that is an integer literal gives the integer, a
\* string with a '.' gives a float, any other string comes back unchanged; numbers and
\* None come back unchanged.
C8_StringWithDotGivesFloat ==
    pc = "converted" =>
        /\ C8_NonStrings
        /\ cv_in.t = "str" =>
             IF HasDot(cv_in.s) THEN cv_out.t = "float"
             ELSE IF IsIntegerLiteral(cv_in.s)
             THEN cv_out = PyInt(Horner(0, Ink(cv_in.s)))
             ELSE cv_out = cv_in

\* C8 as amended: a string with a '.' gives a float when it is a decimal literal, and
\* comes back unchanged when it is not.
C8_DecimalLiteralGivesFloat ==
    pc = "converted" =>
        /\ C8_NonStrings
        /\ cv_in.t = "str" =>
             IF HasDot(cv_in.s)
             THEN IF IsDecimalLiteral(cv_in.s)
                  THEN cv_out.t = "float" /\ IsValueOf(cv_out, cv_in.s)
                  ELSE cv_out = cv_in
             ELSE IF IsIntegerLiteral(cv_in.s)
             THEN cv_out = PyInt(Horner(0, Ink(cv_in.s)))
             ELSE cv_out = cv_in

C8_Witness ==
    /\ pc = "converted"
    /\ cv_in = PyStr(<<"1", ".", "0">>)
    /\ cv_out = PyFloat(1, 0)

====
